---- MODULE Spec2Model ----
(***************************************************************************)
(* The lineup optimizer of generate-lineups.py: load_and_prepare_data,     *)
(* batting_score, build_position_candidates, the recursive                 *)
(* backtrack_lineup (with its call stack made explicit) and                *)
(* find_best_lineup_backtracking, driven by a caller that invokes the      *)
(* search for the right-handed and the left-handed scenario (main).        *)
(*                                                                         *)
(* Representation.                                                         *)
(*  - A text cell of the sheet is a sequence of one-character strings      *)
(*    (<<" ", "C">> is " C"), so that str.strip() is computed, not assumed.*)
(*    A missing cell is NaN.                                               *)
(*  - Numbers are exact decimals kept as integers: Average is in           *)
(*    thousandths (299 is .299), a Score is in units of 10^-5 (6501495 is  *)
(*    65.01495), so that the weights 0.30 ... 0.05 are the integers        *)
(*    30000 ... 5000 and round(x, 2) is rounding to a multiple of 1000.    *)
(*    The other attributes are integers.                                   *)
(*  - float('-inf') is NegInf == <<>>; a finite best score s is <<s>>.     *)
(***************************************************************************)
EXTENDS Integers, Sequences, FiniteSets, TLC

\* ------------------------------------------------------------------ bounds
\* rows of the roster sheet
MaxRoster == 3
\* rows of the roster sheet when the search is called repeatedly (SpecMain)
MaxRosterMain == 2
\* length of the list of required positions
MaxPositions == 2

\* ------------------------------------------------------------------ text
NaN == <<"NaN">>

Whitespace == {" ", "\t", "\n", "\r", "\f"}

RECURSIVE LStrip(_)
LStrip(s) ==
    IF s # <<>> /\ Head(s) \in Whitespace THEN LStrip(Tail(s)) ELSE s

RECURSIVE RStrip(_)
RStrip(s) ==
    IF s # <<>> /\ s[Len(s)] \in Whitespace
    THEN RStrip(SubSeq(s, 1, Len(s) - 1))
    ELSE s

\* variant: the cell is left as read
StripNone(s) == s

\* str.strip() of a text cell
Strip(s) == RStrip(LStrip(s))

\* fillna("") of a cell
FillNa(c) == IF c = NaN THEN <<>> ELSE c

Range(s) == {s[i] : i \in 1..Len(s)}

\* ------------------------------------------------------------------ inputs
NumPositionCols == 6

Cells(c1, c2) == <<c1, c2, NaN, NaN, NaN, NaN>>

SheetRow(name, bats, cells, cR, cL, pR, pL, vis, clu, spd, ab, hr, rbi, avg) ==
    [Player |-> name, Bats |-> bats, Position |-> cells,
     ContactR |-> cR, ContactL |-> cL, PowerR |-> pR, PowerL |-> pL,
     Vision |-> vis, Clutch |-> clu, Speed |-> spd, AtBats |-> ab,
     HR |-> hr, RBI |-> rbi, Average |-> avg]

\* The rows a roster sheet is drawn from: blank and padded cells, a label in
\* lower case, a repeated player name, scores that differ between the two
\* scenarios and two scores that agree only after rounding.
RowPool ==
    { SheetRow("A", "R", Cells(<<" ", "C">>, <<"1", "B">>),
               80, 60, 70, 50, 60, 50, 40, 30, 10, 20, 299),
      SheetRow("B", "L", Cells(<<"C", " ">>, NaN),
               80, 85, 70, 75, 60, 50, 40, 30, 10, 20, 280),
      SheetRow("A", "L", Cells(NaN, <<"1", "B", " ">>),
               70, 90, 60, 80, 40, 40, 30, 20, 5, 10, 312),
      SheetRow("D", "", Cells(<<"\t", "S", "S", "\n">>, <<"c">>),
               60, 40, 90, 30, 50, 50, 60, 40, 20, 30, 263) }

PositionPool == {<<"C">>, <<"1", "B">>, <<"S", "S">>}

SeqsUpTo(S, n) == UNION {[1..m -> S] : m \in 0..n}

\* the two calls of main: (contact_col, power_col)
Scenarios == {<<"ContactR", "PowerR">>, <<"ContactL", "PowerL">>}

\* ------------------------------------------------------------------ state
VARIABLES
    sheet,               \* the 'Lineup' sheet as read by pd.read_excel
    positions_needed,    \* the ordered list of required positions
    df,                  \* the roster returned by load_and_prepare_data
    pc,                  \* where the program is
    contact_col,         \* arguments of the call in progress (or the last one)
    power_col,
    position_candidates, \* position -> candidates, rows annotated with Score
    stack,               \* frames of backtrack_lineup: idx and loop position k
    used_players,
    current_lineup,
    best_result,
    result,              \* the lineup last returned
    returned,            \* scenario -> the lineups returned for it so far
    repeat_call,         \* the call in progress (or the last one) repeats an earlier call's arguments
    roster_csv,          \* roster_manager.py: the CSV file, if it exists, and its rows
    backup_csv,          \* the backup file written last
    before_csv,          \* the CSV file as it was when the last saving operation began
    last_op,             \* the saving operation run last
    base_cases           \* the partial assignments with which the search in progress (or the last one) reached line 39's base case, in order

vars == <<sheet, positions_needed, df, pc, contact_col, power_col,
          position_candidates, stack, used_players, current_lineup,
          best_result, result, returned, repeat_call, base_cases,
          roster_csv, backup_csv, before_csv, last_op>>

\* the state of the roster manager
rm_vars == <<roster_csv, backup_csv, before_csv, last_op>>

\* no such file (os.path.exists is False)
Missing == [exists |-> FALSE, rows |-> <<>>]

\* -------------------------------------------------- load_and_prepare_data
PrepareRow(row) ==
    LET cells == [i \in 1..NumPositionCols |-> Strip(FillNa(row.Position[i]))]
    IN  [row EXCEPT !.Position = cells] @@ ("All_Positions" :> cells)

load_and_prepare_data(sh) == [i \in 1..Len(sh) |-> PrepareRow(sh[i])]

\* ------------------------------------------------------------ batting_score
\* variant: the weights of contact and power exchanged
batting_score_swapped(player, ccol, pcol) ==
      player[ccol] * 25000
    + player[pcol] * 30000
    + player.Vision * 15000
    + player.Clutch * 15000
    + player.Speed * 10000
    + player.AtBats * 5000
    + player.HR * 5000
    + player.RBI * 5000
    + player.Average * 5

batting_score(player, ccol, pcol) ==
      player[ccol] * 30000
    + player[pcol] * 25000
    + player.Vision * 15000
    + player.Clutch * 15000
    + player.Speed * 10000
    + player.AtBats * 5000
    + player.HR * 5000
    + player.RBI * 5000
    + player.Average * 5

\* ------------------------------------------------ build_position_candidates
\* variant: the row's labels are not consulted
EligibleAnywhere(pos, row) == TRUE

\* pos in x, x the row's All_Positions
Eligible(pos, row) == pos \in Range(row.All_Positions)

WithScore(row, ccol, pcol) ==
    row @@ ("Score" :> batting_score(row, ccol, pcol))

Candidates(d, pos, ccol, pcol) ==
    LET sel == SelectSeq(d, LAMBDA row : Eligible(pos, row))
    IN  [i \in 1..Len(sel) |-> WithScore(sel[i], ccol, pcol)]

\* variant: a position without candidates gets no entry
build_nonempty_only(d, pn, ccol, pcol) ==
    [pos \in {q \in Range(pn) : Candidates(d, q, ccol, pcol) # <<>>} |->
        Candidates(d, pos, ccol, pcol)]

build_position_candidates(d, pn, ccol, pcol) ==
    [pos \in Range(pn) |-> Candidates(d, pos, ccol, pcol)]

\* ------------------------------------------------------------------- Init
Init ==
    /\ sheet \in SeqsUpTo(RowPool, MaxRoster)
    /\ positions_needed \in SeqsUpTo(PositionPool, MaxPositions)
    /\ df = <<>>
    /\ pc = "load"
    /\ contact_col = ""
    /\ power_col = ""
    /\ position_candidates = <<>>
    /\ stack = <<>>
    /\ used_players = {}
    /\ current_lineup = <<>>
    /\ best_result = [score |-> <<>>, lineup |-> <<>>]
    /\ result = <<>>
    /\ returned = [s \in Scenarios |-> {}]
    /\ repeat_call = FALSE
    /\ base_cases = <<>>
    /\ roster_csv = Missing
    /\ backup_csv = Missing
    /\ before_csv = Missing
    /\ last_op = "none"

Load ==
    /\ pc = "load"
    /\ df' = load_and_prepare_data(sheet)
    /\ pc' = "idle"
    /\ UNCHANGED rm_vars
    /\ UNCHANGED <<sheet, positions_needed, contact_col, power_col,
                   position_candidates, stack, used_players, current_lineup,
                   best_result, result, returned, repeat_call,
                   base_cases>>

\* ------------------------------------------------------- backtrack_lineup
\* variant: the score is not rounded
RoundNone(x) == x

\* round(x, 2): to the nearest multiple of 10^-2, a tie going to the even one
Round2(x) ==
    LET q == x \div 1000
        r == x % 1000
    IN  IF r < 500 THEN q * 1000
        ELSE IF r > 500 THEN (q + 1) * 1000
        ELSE IF q % 2 = 0 THEN q * 1000 ELSE (q + 1) * 1000

\* the dictionary appended to current_lineup
Entry(pos, player) ==
    [Position |-> pos, Player |-> player.Player, Bats |-> player.Bats,
     Average |-> player.Average, HR |-> player.HR, RBI |-> player.RBI,
     Speed |-> player.Speed, AtBats |-> player.AtBats,
     Score |-> Round2(player.Score)]

RECURSIVE SumScores(_)
SumScores(lineup) ==
    IF lineup = <<>> THEN 0 ELSE Head(lineup).Score + SumScores(Tail(lineup))

NegInf == <<>>

\* variant: a tie replaces the best result too
IsBetterOrEqual(total, best) == best = NegInf \/ total >= best[1]

\* variant: the comparison reversed
IsWorse(total, best) == best = NegInf \/ total < best[1]

\* total_score > best_result["score"]
IsBetter(total, best) == best = NegInf \/ total > best[1]

\* variant: the used-player test dropped
NeverUsed(name, used) == FALSE

\* player_name in used_players
AlreadyUsed(name, used) == name \in used

\* a frame of backtrack_lineup: idx, the position k of the loop of line 49 in
\* the candidates, and the arguments used_players and current_lineup as they
\* were when the call was entered
Frame(idx, used, lineup) ==
    [idx |-> idx, k |-> 1, used0 |-> used, lineup0 |-> lineup]

\* variant: the loop stays on the same candidate
Stay(frame) == frame

\* variant: the loop passes over a candidate
SkipOne(frame) == [frame EXCEPT !.k = @ + 2]

\* line 49: the loop moves to the next candidate
Advance(frame) == [frame EXCEPT !.k = @ + 1]

\* variant: the name stays in the set
KeepUsed(used, name) == used

\* line 69: used_players.remove(player_name)
RemoveUsed(used, name) == used \ {name}

Top == stack[Len(stack)]
Pop(s) == SubSeq(s, 1, Len(s) - 1)
\* the position and the candidates of the top frame (idx is 0-based as in the code)
TopPos == positions_needed[Top.idx + 1]
TopCandidates == position_candidates[TopPos]
AfterReturn(s) == IF s = <<>> THEN "post" ELSE "ret"

\* ------------------------------------------ find_best_lineup_backtracking
\* variant: the best result of the previous call is kept
StaleBest == best_result

\* line 75
NewBest == [score |-> NegInf, lineup |-> <<>>]

Sentinel(pos) ==
    [Position |-> pos, Player |-> "N/A", Bats |-> "", Average |-> 0,
     HR |-> 0, RBI |-> 0, Speed |-> 0, AtBats |-> 0, Score |-> 0]

\* variant: no padding
NoPad(lineup, pn) == lineup

\* variant: every placeholder labelled with the first position
PadFirstLabel(lineup, pn) ==
    IF Len(lineup) < Len(pn)
    THEN lineup \o [j \in 1..(Len(pn) - Len(lineup)) |-> Sentinel(pn[1])]
    ELSE lineup

\* lines 79-91: lineup.append for i in range(len(lineup), len(positions_needed))
PadLineup(lineup, pn) ==
    IF Len(lineup) < Len(pn)
    THEN lineup \o [j \in 1..(Len(pn) - Len(lineup)) |-> Sentinel(pn[Len(lineup) + j])]
    ELSE lineup

\* e goes after every entry whose Score is not smaller: the sort is stable
RECURSIVE InsertDesc(_, _)
InsertDesc(e, s) ==
    IF s = <<>> THEN <<e>>
    ELSE IF Head(s).Score >= e.Score THEN <<Head(s)>> \o InsertDesc(e, Tail(s))
    ELSE <<e>> \o s

RECURSIVE SortFrom(_, _)
SortFrom(done, rest) ==
    IF rest = <<>> THEN done
    ELSE SortFrom(InsertDesc(Head(rest), done), Tail(rest))

\* variant: the lineup is returned in search order
Unsorted(lineup) == lineup

\* sorted(lineup, key=lambda x: x["Score"], reverse=True)
SortLineup(lineup) == SortFrom(<<>>, lineup)

\* backtrack_lineup and its for loop as functions of their arguments: the
\* value is best_result as the call leaves it
RECURSIVE backtrack_lineup(_, _, _, _, _, _)
RECURSIVE CandidateLoop(_, _, _, _, _, _, _)
backtrack_lineup(pcands, pn, idx, used, lineup, best) ==
    IF idx = Len(pn)
    THEN LET total_score == SumScores(lineup)
         IN  IF IsBetter(total_score, best.score)
             THEN [score |-> <<total_score>>, lineup |-> lineup]
             ELSE best
    ELSE CandidateLoop(pcands, pn, idx, 1, used, lineup, best)

\* the iterations of the loop from the k-th candidate on
CandidateLoop(pcands, pn, idx, k, used, lineup, best) ==
    LET pos == pn[idx + 1]
        candidates == pcands[pos]
    IN  IF k > Len(candidates) THEN best
        ELSE IF AlreadyUsed(candidates[k].Player, used)
        THEN CandidateLoop(pcands, pn, idx, k + 1, used, lineup, best)
        ELSE CandidateLoop(pcands, pn, idx, k + 1, used, lineup,
                 backtrack_lineup(pcands, pn, idx + 1,
                                  used \cup {candidates[k].Player},
                                  Append(lineup, Entry(pos, candidates[k])),
                                  best))

\* lines 75-94 as a function of the candidates and the position list
LineupFor(pcands, pn) ==
    SortLineup(PadLineup(backtrack_lineup(pcands, pn, 0, {}, <<>>, NewBest).lineup, pn))

\* line 74: position_candidates = build_position_candidates(...)
Build(ccol, pcol) ==
    /\ contact_col' = ccol
    /\ power_col' = pcol
    /\ position_candidates' = build_position_candidates(df, positions_needed, ccol, pcol)
    /\ repeat_call' = (returned[<<ccol, pcol>>] # {})
    /\ pc' = "built"
    /\ UNCHANGED rm_vars
    /\ UNCHANGED <<sheet, positions_needed, df, stack, used_players,
                   current_lineup, best_result, result, returned, base_cases>>

\* the first call of find_best_lineup_backtracking (main, line 101)
Call(ccol, pcol) ==
    /\ pc = "idle"
    /\ Build(ccol, pcol)

\* a further call on the same roster and positions (main, line 102)
Recall(ccol, pcol) ==
    /\ pc = "returned"
    /\ Build(ccol, pcol)

\* lines 75-76: backtrack_lineup(.., 0, set(), [], best_result) is entered
Start ==
    /\ pc = "built"
    /\ best_result' = NewBest
    /\ used_players' = {}
    /\ current_lineup' = <<>>
    /\ stack' = <<Frame(0, {}, <<>>)>>
    /\ base_cases' = <<>>
    /\ pc' = "run"
    /\ UNCHANGED rm_vars
    /\ UNCHANGED <<sheet, positions_needed, df, contact_col, power_col,
                   position_candidates, result, returned, repeat_call>>

\* lines 39-45
BaseCase ==
    /\ pc = "run"
    /\ Top.idx = Len(positions_needed)
    /\ LET total_score == SumScores(current_lineup)
       IN  best_result' =
             IF IsBetter(total_score, best_result.score)
             THEN [score |-> <<total_score>>, lineup |-> current_lineup]
             ELSE best_result
    /\ stack' = Pop(stack)
    /\ pc' = AfterReturn(stack')
    /\ base_cases' = Append(base_cases, current_lineup)
    /\ UNCHANGED rm_vars
    /\ UNCHANGED <<sheet, positions_needed, df, contact_col, power_col,
                   position_candidates, used_players, current_lineup,
                   result, returned, repeat_call>>

\* lines 49-53: the next candidate is already used
SkipUsed ==
    /\ pc = "run"
    /\ Top.idx < Len(positions_needed)
    /\ Top.k <= Len(TopCandidates)
    /\ AlreadyUsed(TopCandidates[Top.k].Player, used_players)
    /\ stack' = [stack EXCEPT ![Len(stack)] = Advance(@)]
    /\ UNCHANGED rm_vars
    /\ UNCHANGED <<sheet, positions_needed, df, pc, contact_col, power_col,
                   position_candidates, used_players, current_lineup,
                   best_result, result, returned, repeat_call,
                   base_cases>>

\* lines 49-67: commit the next candidate and recurse
Commit ==
    /\ pc = "run"
    /\ Top.idx < Len(positions_needed)
    /\ Top.k <= Len(TopCandidates)
    /\ LET player == TopCandidates[Top.k]
       IN  /\ ~AlreadyUsed(player.Player, used_players)
           /\ current_lineup' = Append(current_lineup, Entry(TopPos, player))
           /\ used_players' = used_players \cup {player.Player}
    /\ stack' = Append(stack, Frame(Top.idx + 1, used_players', current_lineup'))
    /\ UNCHANGED rm_vars
    /\ UNCHANGED <<sheet, positions_needed, df, pc, contact_col, power_col,
                   position_candidates, best_result, result, returned,
                   repeat_call,
                   base_cases>>

\* line 49: the candidates are exhausted, the call returns
LoopEnd ==
    /\ pc = "run"
    /\ Top.idx < Len(positions_needed)
    /\ Top.k > Len(TopCandidates)
    /\ stack' = Pop(stack)
    /\ pc' = AfterReturn(stack')
    /\ UNCHANGED rm_vars
    /\ UNCHANGED <<sheet, positions_needed, df, contact_col, power_col,
                   position_candidates, used_players, current_lineup,
                   best_result, result, returned, repeat_call,
                   base_cases>>

\* lines 68-70, after the recursive call has returned; set.remove raises
\* KeyError for a name that is not in the set
Uncommit ==
    /\ pc = "ret"
    /\ LET player_name == TopCandidates[Top.k].Player
       IN  IF player_name \in used_players
           THEN /\ used_players' = RemoveUsed(used_players, player_name)
                /\ current_lineup' = Pop(current_lineup)
                /\ stack' = [stack EXCEPT ![Len(stack)] = Advance(@)]
                /\ pc' = "run"
           ELSE /\ pc' = "error"
                /\ UNCHANGED <<used_players, current_lineup, stack>>
    /\ UNCHANGED rm_vars
    /\ UNCHANGED <<sheet, positions_needed, df, contact_col, power_col,
                   position_candidates, best_result, result, returned,
                   repeat_call,
                   base_cases>>

\* lines 77-94: pad with N/A, sort, return; lineup is best_result["lineup"]
\* itself, so the padding lands in best_result too
Post ==
    /\ pc = "post"
    /\ LET lineup == PadLineup(best_result.lineup, positions_needed)
       IN  /\ best_result' = [best_result EXCEPT !.lineup = lineup]
           /\ result' = SortLineup(lineup)
    /\ returned' = [returned EXCEPT ![<<contact_col, power_col>>] = @ \cup {result'}]
    /\ pc' = "returned"
    /\ UNCHANGED rm_vars
    /\ UNCHANGED <<sheet, positions_needed, df, contact_col, power_col,
                   position_candidates, stack, used_players, current_lineup,
                   repeat_call,
                   base_cases>>

Next ==
    \/ Load
    \/ \E s \in Scenarios : Call(s[1], s[2])
    \/ Start
    \/ BaseCase
    \/ SkipUsed
    \/ Commit
    \/ LoopEnd
    \/ Uncommit
    \/ Post

\* one call of find_best_lineup_backtracking, for either scenario
Spec == Init /\ [][Next]_vars

\* main: the search is called again and again on the loaded roster
InitMain ==
    /\ Init
    /\ Len(sheet) <= MaxRosterMain

NextMain ==
    \/ Next
    \/ \E s \in Scenarios : Recall(s[1], s[2])

SpecMain == InitMain /\ [][NextMain]_vars

\* one call, run to completion: the interpreter keeps executing the
\* program's next step for as long as there is one
SpecLive == InitMain /\ [][Next]_vars /\ WF_vars(Next)

\* ======================================================= roster_manager.py
\* the largest roster the manager is run on
MaxRmRows == 2

\* what the forms' fields are filled with: the name, the batting side and the
\* text of Position 1 (the other fields are carried along in the same way)
NamePool == {"A", "B"}
BatsPool == {"R", "L"}
PositionTextPool == {<<>>, <<"C">>}

\* a row of the CSV file, its cells as text
CsvRows ==
    [Player : NamePool, Bats : BatsPool, Position1 : PositionTextPool]

File(rows) == [exists |-> TRUE, rows |-> rows]

\* pd.read_csv: an empty cell is read as NaN
read_csv(rows) ==
    [i \in 1..Len(rows) |->
        [rows[i] EXCEPT !.Position1 = IF @ = <<>> THEN NaN ELSE @]]

\* df.to_csv(path, index=False): NaN is written as an empty cell
to_csv(frame) ==
    File([i \in 1..Len(frame) |->
            [frame[i] EXCEPT !.Position1 = IF @ = NaN THEN <<>> ELSE @]])

\* load_csv: the file's rows, or the empty frame when there is no file
load_csv(file) == IF file.exists THEN read_csv(file.rows) ELSE <<>>

\* save_backup: frame is written to a new backup file if the CSV file
\* exists; otherwise no backup is made
save_backup(frame, file, backup) ==
    IF file.exists THEN to_csv(frame) ELSE backup

\* df["Player"].tolist()
PlayerNames(frame) == {frame[i].Player : i \in 1..Len(frame)}

\* df[df["Player"] == selected_player].index[0]
FirstIndex(frame, name) ==
    CHOOSE i \in 1..Len(frame) :
        /\ frame[i].Player = name
        /\ \A j \in 1..(i - 1) : frame[j].Player # name

\* df[df["Player"] != player_name].reset_index(drop=True)
delete_player(frame, player_name) ==
    SelectSeq(frame, LAMBDA row : row.Player # player_name)

\* df[~df["Player"].isin(player_names)].reset_index(drop=True)
delete_players_batch(frame, player_names) ==
    SelectSeq(frame, LAMBDA row : row.Player \notin player_names)

\* main, tab 1, "Save Changes": the loaded frame is updated in place, then
\* backed up, then written
EditPlayer(selected_player, player_name, bats, position1) ==
    LET loaded == load_csv(roster_csv)
    IN  /\ selected_player \in PlayerNames(loaded)
        /\ LET player_index == FirstIndex(loaded, selected_player)
               edited == [loaded EXCEPT ![player_index] =
                            [Player |-> player_name, Bats |-> bats,
                             Position1 |-> position1]]
           IN  /\ backup_csv' = save_backup(edited, roster_csv, backup_csv)
               /\ roster_csv' = to_csv(edited)
        /\ before_csv' = roster_csv
        /\ last_op' = "edit"
        /\ UNCHANGED <<sheet, positions_needed, df, pc, contact_col, power_col,
                       position_candidates, stack, used_players,
                       current_lineup, best_result, result, returned,
                       repeat_call, base_cases>>

\* main, tab 2, add_player_form_component with "Add Player" pressed; the name
\* and the batting side are not empty (lines 193-199 return otherwise)
AddPlayer(new_player_name, new_bats, new_position1) ==
    LET loaded == load_csv(roster_csv)
        new_player == [Player |-> new_player_name, Bats |-> new_bats,
                       Position1 |-> new_position1]
        updated_df == Append(loaded, new_player)
    IN  /\ Len(loaded) < MaxRmRows
        /\ backup_csv' = save_backup(loaded, roster_csv, backup_csv)
        /\ roster_csv' = to_csv(updated_df)
        /\ before_csv' = roster_csv
        /\ last_op' = "add"
        /\ UNCHANGED <<sheet, positions_needed, df, pc, contact_col, power_col,
                       position_candidates, stack, used_players,
                       current_lineup, best_result, result, returned,
                       repeat_call, base_cases>>

\* main, tab 3, "Delete Selected Players": delete_players_batch
DeletePlayers(players_to_delete) ==
    LET loaded == load_csv(roster_csv)
    IN  /\ players_to_delete # {}
        /\ players_to_delete \subseteq PlayerNames(loaded)
        /\ backup_csv' = save_backup(loaded, roster_csv, backup_csv)
        /\ roster_csv' = to_csv(delete_players_batch(loaded, players_to_delete))
        /\ before_csv' = roster_csv
        /\ last_op' = "delete_batch"
        /\ UNCHANGED <<sheet, positions_needed, df, pc, contact_col, power_col,
                       position_candidates, stack, used_players,
                       current_lineup, best_result, result, returned,
                       repeat_call, base_cases>>

\* a call of delete_player on the loaded roster (main does not call it)
DeletePlayer(player_name) ==
    LET loaded == load_csv(roster_csv)
    IN  /\ player_name \in PlayerNames(loaded)
        /\ backup_csv' = save_backup(loaded, roster_csv, backup_csv)
        /\ roster_csv' = to_csv(delete_player(loaded, player_name))
        /\ before_csv' = roster_csv
        /\ last_op' = "delete"
        /\ UNCHANGED <<sheet, positions_needed, df, pc, contact_col, power_col,
                       position_candidates, stack, used_players,
                       current_lineup, best_result, result, returned,
                       repeat_call, base_cases>>

\* the rosters the manager starts on: no file, or a file of at most
\* MaxRmRows rows whose Player names are pairwise distinct
InitialFiles ==
    {Missing} \cup
    {File(rows) : rows \in
        {r \in SeqsUpTo(CsvRows, MaxRmRows) :
            \A i, j \in 1..Len(r) : i # j => r[i].Player # r[j].Player}}

InitRoster ==
    /\ sheet = <<>>
    /\ positions_needed = <<>>
    /\ df = <<>>
    /\ pc = "load"
    /\ contact_col = ""
    /\ power_col = ""
    /\ position_candidates = <<>>
    /\ stack = <<>>
    /\ used_players = {}
    /\ current_lineup = <<>>
    /\ best_result = [score |-> <<>>, lineup |-> <<>>]
    /\ result = <<>>
    /\ returned = [s \in Scenarios |-> {}]
    /\ repeat_call = FALSE
    /\ base_cases = <<>>
    /\ roster_csv \in InitialFiles
    /\ backup_csv = Missing
    /\ before_csv = Missing
    /\ last_op = "none"

NextRoster ==
    \/ \E selected_player, player_name \in NamePool, bats \in BatsPool,
          position1 \in PositionTextPool :
            EditPlayer(selected_player, player_name, bats, position1)
    \/ \E new_player_name \in NamePool, new_bats \in BatsPool,
          new_position1 \in PositionTextPool :
            AddPlayer(new_player_name, new_bats, new_position1)
    \/ \E players_to_delete \in SUBSET NamePool : DeletePlayers(players_to_delete)
    \/ \E player_name \in NamePool : DeletePlayer(player_name)

\* the roster manager, one saving operation per run of main
SpecRoster == InitRoster /\ [][NextRoster]_vars

\* ================================================================ claims
Returned == pc = "returned"
\* build_position_candidates has returned the mapping for the call in progress
Built == pc = "built"
IsSentinel(e) == e.Player = "N/A"
CountPos(pos, labels) == Cardinality({i \in 1..Len(labels) : labels[i] = pos})
Labels(lineup) == [i \in 1..Len(lineup) |-> lineup[i].Position]

\* The complete assignments of the call's input: a[i] is the roster row put
\* at the i-th required position; the rows are eligible and their names
\* pairwise distinct.
Assignments ==
    {a \in [1..Len(positions_needed) -> 1..Len(df)] :
        /\ \A i \in DOMAIN a : positions_needed[i] \in Range(df[a[i]].All_Positions)
        /\ \A i, j \in DOMAIN a : i # j => df[a[i]].Player # df[a[j]].Player}

RECURSIVE SumTo(_, _)
SumTo(f, n) == IF n = 0 THEN 0 ELSE f[n] + SumTo(f, n - 1)

\* the total of an assignment: the sum of its entries' Scores
TotalOf(a) ==
    SumTo([i \in DOMAIN a |-> Round2(batting_score(df[a[i]], contact_col, power_col))],
          Len(positions_needed))

\* C1: when a complete assignment of pairwise-distinct eligible players
\* exists, the total score of the returned lineup is the maximum total over
\* all such assignments.
C1_Optimal ==
    (Returned /\ Assignments # {}) =>
        /\ \E a \in Assignments : TotalOf(a) = SumScores(result)
        /\ \A a \in Assignments : TotalOf(a) <= SumScores(result)

\* a returned lineup for two positions where the assignments differ in total
C1_Witness ==
    /\ Returned
    /\ Len(positions_needed) >= 2
    /\ \E a, b \in Assignments : TotalOf(a) < TotalOf(b)

DistinctPlayers(lineup) ==
    \A i, j \in 1..Len(lineup) :
        (i # j /\ ~IsSentinel(lineup[i]) /\ ~IsSentinel(lineup[j]))
            => lineup[i].Player # lineup[j].Player

\* C2: no two non-sentinel entries of the returned lineup (nor of the best
\* result it is taken from) have the same Player name, also for a roster
\* with repeated names.
C2_DistinctPlayers ==
    /\ DistinctPlayers(best_result.lineup)
    /\ Returned => DistinctPlayers(result)

\* two rows of the same name are eligible for two different slots of the
\* position list, and a lineup of real players was returned
C2_Witness ==
    /\ Returned
    /\ Len(result) >= 2
    /\ \A i \in 1..Len(result) : ~IsSentinel(result[i])
    /\ \E i, j \in 1..Len(df), p, q \in 1..Len(positions_needed) :
          /\ i # j /\ p # q
          /\ df[i].Player = df[j].Player
          /\ positions_needed[p] \in Range(df[i].All_Positions)
          /\ positions_needed[q] \in Range(df[j].All_Positions)

\* C3: the returned lineup has as many entries as the required-positions
\* list, and every position labels as many entries as it has places in the
\* list (exactly one when the list names it once).
C3_OneEntryPerPosition ==
    Returned =>
        /\ Len(result) = Len(positions_needed)
        /\ \A pos \in PositionPool :
              CountPos(pos, Labels(result)) = CountPos(pos, positions_needed)

\* an empty roster and two required positions
C3_Witness ==
    /\ Returned
    /\ df = <<>>
    /\ Len(positions_needed) >= 2
    /\ Len(result) = Len(positions_needed)

InLineup(name, lineup) ==
    \E i \in 1..Len(lineup) : ~IsSentinel(lineup[i]) /\ lineup[i].Player = name

\* C4: a sentinel stands only at a position that has no eligible unused
\* player: every roster row eligible for a sentinel's position plays
\* elsewhere in the returned lineup.
C4_SentinelOnlyWhereUnfillable ==
    Returned =>
        \A i \in 1..Len(result) :
            IsSentinel(result[i]) =>
                \A r \in 1..Len(df) :
                    result[i].Position \in Range(df[r].All_Positions)
                        => InLineup(df[r].Player, result)

\* C5: every non-sentinel entry of the returned lineup is a roster row whose
\* declared position labels contain the entry's position.
C5_EligibleOnly ==
    Returned =>
        \A i \in 1..Len(result) :
            ~IsSentinel(result[i]) =>
                \E r \in 1..Len(df) :
                    /\ df[r].Player = result[i].Player
                    /\ df[r].Bats = result[i].Bats
                    /\ df[r].Average = result[i].Average
                    /\ \E j \in 1..NumPositionCols :
                          df[r].Position[j] = result[i].Position

\* a real player is in the lineup although another row of the roster is not
\* eligible for the position
C5_Witness ==
    /\ Returned
    /\ \E i \in 1..Len(result) :
          /\ ~IsSentinel(result[i])
          /\ \E r \in 1..Len(df) :
                result[i].Position \notin Range(df[r].All_Positions)

WithoutScore(c) == [f \in (DOMAIN c) \ {"Score"} |-> c[f]]

\* roster row i is among the candidates listed for pos
Listed(i, pos) ==
    \E k \in 1..Len(position_candidates[pos]) :
        WithoutScore(position_candidates[pos][k]) = df[i]

LowerCase == <<"a", "b", "c", "d", "e", "f", "g", "h", "i", "j", "k", "l", "m",
               "n", "o", "p", "q", "r", "s", "t", "u", "v", "w", "x", "y", "z">>
UpperCase == <<"A", "B", "C", "D", "E", "F", "G", "H", "I", "J", "K", "L", "M",
               "N", "O", "P", "Q", "R", "S", "T", "U", "V", "W", "X", "Y", "Z">>
Upper(ch) ==
    IF \E n \in 1..26 : LowerCase[n] = ch
    THEN UpperCase[CHOOSE n \in 1..26 : LowerCase[n] = ch]
    ELSE ch
\* case and whitespace normalization of a label
Normalized(s) == LET t == Strip(s) IN [n \in 1..Len(t) |-> Upper(t[n])]

\* C6 as stated: a row is a candidate for P iff P appears, after case and
\* whitespace normalization, among the row's non-empty position labels.
C6_CaseAndWhitespaceNormalized ==
    Built =>
        \A pos \in Range(positions_needed) : \A i \in 1..Len(df) :
            Listed(i, pos) <=>
                \E j \in 1..NumPositionCols :
                    /\ df[i].Position[j] # <<>>
                    /\ Normalized(df[i].Position[j]) = Normalized(pos)

\* the cell is pos with whitespace around it, pos itself having none at its ends
StripsTo(cell, pos) ==
    IF cell = NaN THEN pos = <<>>
    ELSE \E a, b \in 0..Len(cell) :
            /\ a + b <= Len(cell)
            /\ \A n \in 1..a : cell[n] \in Whitespace
            /\ \A n \in (Len(cell) - b + 1)..Len(cell) : cell[n] \in Whitespace
            /\ SubSeq(cell, a + 1, Len(cell) - b) = pos
            /\ pos # <<>> => (pos[1] \notin Whitespace /\ pos[Len(pos)] \notin Whitespace)

EligibleRows(pos) ==
    {i \in 1..Len(sheet) :
        \E j \in 1..NumPositionCols : StripsTo(sheet[i].Position[j], pos)}

\* C6 (amended): a row is a candidate for P iff P is equal, letter case
\* included, to one of the row's position labels once the whitespace around
\* the label is removed; the candidates are those rows, each once.
C6_WhitespaceNormalizedOnly ==
    Built =>
        \A pos \in Range(positions_needed) :
            /\ \A i \in 1..Len(df) : Listed(i, pos) <=> i \in EligibleRows(pos)
            /\ Len(position_candidates[pos]) = Cardinality(EligibleRows(pos))

\* a label with whitespace around it makes its row a candidate, and a label
\* in the other letter case does not
C6_Witness ==
    /\ Built
    /\ \E pos \in Range(positions_needed) : \E i, i2 \in 1..Len(df) :
          /\ Listed(i, pos)
          /\ \A j \in 1..NumPositionCols : sheet[i].Position[j] # pos
          /\ ~Listed(i2, pos)
          /\ \E j \in 1..NumPositionCols :
                /\ sheet[i2].Position[j] # NaN
                /\ Normalized(sheet[i2].Position[j]) = Normalized(pos)

\* C7: every candidate's Score is 0.30*contact + 0.25*power + 0.15*vision +
\* 0.15*clutch + 0.10*speed + 0.05*atBats + 0.05*HR + 0.05*RBI + 0.05*average
\* (in units of 10^-5, average in thousandths), contact and power being
\* ContactR/PowerR in the right-handed and ContactL/PowerL in the left-handed
\* scenario.
C7_ScoreFormula ==
    Built =>
        \A pos \in Range(positions_needed) :
            \A k \in 1..Len(position_candidates[pos]) :
                LET c == position_candidates[pos][k]
                    contact == IF contact_col = "ContactR" THEN c.ContactR ELSE c.ContactL
                    power == IF power_col = "PowerR" THEN c.PowerR ELSE c.PowerL
                IN  c.Score = 30000 * contact + 25000 * power
                              + 15000 * c.Vision + 15000 * c.Clutch
                              + 10000 * c.Speed + 5000 * c.AtBats
                              + 5000 * c.HR + 5000 * c.RBI + 5 * c.Average

\* a candidate scored for the left-handed scenario whose attributes differ
\* between the scenarios and between contact and power
C7_Witness ==
    /\ Built
    /\ contact_col = "ContactL"
    /\ power_col = "PowerL"
    /\ \E pos \in Range(positions_needed) :
          \E k \in 1..Len(position_candidates[pos]) :
              LET c == position_candidates[pos][k]
              IN  /\ c.ContactL # c.ContactR
                  /\ c.ContactL # c.PowerL

\* C8: the returned lineup is in non-increasing order of Score, and no
\* sentinel precedes a real entry with a positive score.
C8_SortedDescending ==
    Returned =>
        /\ \A i \in 1..(Len(result) - 1) : result[i].Score >= result[i + 1].Score
        /\ \A i, j \in 1..Len(result) :
              (i < j /\ IsSentinel(result[i])) =>
                  ~(~IsSentinel(result[j]) /\ result[j].Score > 0)

\* the sort changed the order in which the search had left the entries
C8_Witness ==
    /\ Returned
    /\ result # best_result.lineup
    /\ \E i \in 1..(Len(result) - 1) : result[i].Score > result[i + 1].Score

\* C9: the call never ends in an error, and every placeholder it returns has
\* Player "N/A", Score 0 and all its numeric fields 0, and carries the label
\* of a required position, no label more often than the list requires it.
C9_GracefulSentinels ==
    /\ pc # "error"
    /\ Returned =>
          /\ \A i \in 1..Len(result) :
                IsSentinel(result[i]) =>
                    /\ result[i].Score = 0
                    /\ result[i].Average = 0
                    /\ result[i].HR = 0
                    /\ result[i].RBI = 0
                    /\ result[i].Speed = 0
                    /\ result[i].AtBats = 0
                    /\ result[i].Position \in Range(positions_needed)
          /\ \A pos \in PositionPool :
                Cardinality({i \in 1..Len(result) :
                                IsSentinel(result[i]) /\ result[i].Position = pos})
                    <= CountPos(pos, positions_needed)

\* a position without any candidate beside one that has candidates, and a
\* lineup with placeholders returned
C9_Witness ==
    /\ Returned
    /\ \E i \in 1..Len(result) : IsSentinel(result[i])
    /\ \E p, q \in Range(positions_needed) :
          /\ position_candidates[p] = <<>>
          /\ position_candidates[q] # <<>>

\* C10: all the calls made with the same roster, position list and columns
\* returned the same lineup.
C10_SameInputSameLineup ==
    \A s \in Scenarios : Cardinality(returned[s]) <= 1

\* a call has returned that repeats an earlier call's arguments, the call
\* for the other scenario having returned a different lineup in between
C10_Witness ==
    /\ Returned
    /\ repeat_call
    /\ \A s \in Scenarios : returned[s] # {}
    /\ \E s, t \in Scenarios : returned[s] # returned[t]
    /\ \E i \in 1..Len(result) : ~IsSentinel(result[i])

\* the sequence without its k-th element
Without(seq, k) == SubSeq(seq, 1, k - 1) \o SubSeq(seq, k + 1, Len(seq))

\* C11: removing one eligible candidate of a position, or one row of the
\* roster, never makes the total of the returned lineup larger.
C11_RemovalNeverIncreases ==
    Returned =>
        /\ result = LineupFor(position_candidates, positions_needed)
        /\ \A pos \in Range(positions_needed) :
              \A k \in 1..Len(position_candidates[pos]) :
                  SumScores(LineupFor(
                      [position_candidates EXCEPT ![pos] = Without(@, k)],
                      positions_needed)) <= SumScores(result)
        /\ \A r \in 1..Len(df) :
              SumScores(LineupFor(
                  build_position_candidates(Without(df, r), positions_needed,
                                            contact_col, power_col),
                  positions_needed)) <= SumScores(result)

\* removing a candidate leaves a complete lineup of a smaller total, and
\* removing another one leaves none
C11_Witness ==
    /\ Returned
    /\ Len(positions_needed) >= 2
    /\ \E pos \in Range(positions_needed) :
          \E k \in 1..Len(position_candidates[pos]) :
              LET t == SumScores(LineupFor(
                           [position_candidates EXCEPT ![pos] = Without(@, k)],
                           positions_needed))
              IN  0 < t /\ t < SumScores(result)
    /\ \E r \in 1..Len(df) :
          SumScores(LineupFor(
              build_position_candidates(Without(df, r), positions_needed,
                                        contact_col, power_col),
              positions_needed)) = 0

\* the lineup, in position order, that the search builds for an assignment
LineupOf(a) ==
    [i \in DOMAIN a |->
        Entry(positions_needed[i], WithScore(df[a[i]], contact_col, power_col))]

\* a comes no later than b in depth-first order: positions in list order,
\* candidates in roster row order
DfsLeq(a, b) ==
    \/ a = b
    \/ \E i \in DOMAIN a :
          /\ \A j \in 1..(i - 1) : a[j] = b[j]
          /\ a[i] < b[i]

AtBaseCase == pc = "run" /\ Top.idx = Len(positions_needed)

\* the returned lineup, before it is sorted, is the first of the
\* assignments of maximal total
FirstOfTheBest ==
    (Returned /\ Assignments # {}) =>
        \E a \in Assignments :
            /\ LineupOf(a) = best_result.lineup
            /\ \A b \in Assignments :
                  /\ TotalOf(b) <= TotalOf(a)
                  /\ TotalOf(b) = TotalOf(a) => DfsLeq(a, b)

\* C13: the base case replaces the best result only when the total of the
\* complete assignment strictly exceeds the recorded best total, and among
\* the assignments tied for the maximum the lineup returned is the first
\* in depth-first order.
C13_StrictlyBetterFirstFound ==
    [][/\ (AtBaseCase /\ best_result' # best_result) =>
              /\ best_result.score # NegInf =>
                    SumScores(current_lineup) > best_result.score[1]
              /\ best_result' = [score |-> <<SumScores(current_lineup)>>,
                                 lineup |-> current_lineup]
       /\ FirstOfTheBest']_vars

\* two assignments with different lineups are tied for the maximum
C13_Witness ==
    /\ Returned
    /\ \E a, b \in Assignments :
          /\ LineupOf(a) # LineupOf(b)
          /\ TotalOf(a) = TotalOf(b)
          /\ \A c \in Assignments : TotalOf(c) <= TotalOf(a)
          /\ LineupOf(a) = best_result.lineup

\* C17: build_position_candidates leaves the roster as it was loaded (the
\* Score annotation is on the candidates, no roster row carries one), and
\* the mapping it returns has an entry for every required position, the
\* empty list for a position no row is eligible for.
C17_RosterUntouchedEveryPositionMapped ==
    Built =>
        /\ df = load_and_prepare_data(sheet)
        /\ \A r \in 1..Len(df) : "Score" \notin DOMAIN df[r]
        /\ DOMAIN position_candidates = Range(positions_needed)
        /\ \A pos \in Range(positions_needed) :
              /\ \A k \in 1..Len(position_candidates[pos]) :
                    "Score" \in DOMAIN position_candidates[pos][k]
              /\ (\A r \in 1..Len(df) : pos \notin Range(df[r].All_Positions))
                    => position_candidates[pos] = <<>>

\* a roster with candidates for one required position and none for another
C17_Witness ==
    /\ Built
    /\ df # <<>>
    /\ \E p, q \in Range(positions_needed) :
          /\ position_candidates[p] = <<>>
          /\ position_candidates[q] # <<>>

Sentinels(lineup) == {i \in 1..Len(lineup) : IsSentinel(lineup[i])}

\* C19: a returned lineup holds no sentinel or only sentinels; it holds
\* sentinels exactly when the search recorded no complete assignment, and
\* then one for every required position.
C19_AllOrNothing ==
    Returned =>
        /\ Sentinels(result) \in {{}, 1..Len(result)}
        /\ best_result.score = NegInf <=> Assignments = {}
        /\ best_result.score = NegInf =>
              /\ Len(result) = Len(positions_needed)
              /\ Sentinels(result) = 1..Len(positions_needed)
        /\ best_result.score # NegInf => Sentinels(result) = {}

\* every required position has candidates, and yet the lineup is all N/A
C19_Witness ==
    /\ Returned
    /\ Len(result) >= 2
    /\ Sentinels(result) = 1..Len(result)
    /\ \A pos \in Range(positions_needed) : position_candidates[pos] # <<>>

\* the multiple of 10^-2 nearest to x (x not halfway between two)
Nearest(x) == ((x + 500) \div 1000) * 1000

RawTotal(a) ==
    SumTo([i \in DOMAIN a |-> batting_score(df[a[i]], contact_col, power_col)],
          Len(positions_needed))

RoundedTotal(a) ==
    SumTo([i \in DOMAIN a |->
              Nearest(batting_score(df[a[i]], contact_col, power_col))],
          Len(positions_needed))

\* C20: the total recorded with the best result is the sum of its entries'
\* Scores, each the candidate's score rounded to 2 decimal places, and the
\* lineup chosen is the first one that maximizes the sum of rounded scores.
C20_RoundedTotals ==
    /\ (pc \in {"run", "ret", "post", "returned"} /\ best_result.score # NegInf) =>
          /\ best_result.score[1] = SumScores(best_result.lineup)
          /\ \A i \in 1..Len(best_result.lineup) :
                LET e == best_result.lineup[i]
                IN  /\ e.Score % 1000 = 0
                    /\ \E k \in 1..Len(position_candidates[e.Position]) :
                          LET c == position_candidates[e.Position][k]
                          IN  /\ c.Player = e.Player
                              /\ e.Score - c.Score <= 500
                              /\ c.Score - e.Score <= 500
    /\ (Returned /\ Assignments # {}) =>
          \E a \in Assignments :
              /\ LineupOf(a) = best_result.lineup
              /\ RoundedTotal(a) = best_result.score[1]
              /\ \A b \in Assignments :
                    /\ RoundedTotal(b) <= RoundedTotal(a)
                    /\ RoundedTotal(b) = RoundedTotal(a) => DfsLeq(a, b)

\* the lineup chosen does not have the largest sum of unrounded scores
C20_Witness ==
    /\ Returned
    /\ \E a, b \in Assignments :
          /\ LineupOf(a) = best_result.lineup
          /\ RoundedTotal(a) = best_result.score[1]
          /\ RawTotal(b) > RawTotal(a)

Searching == pc \in {"run", "ret", "post", "returned"}
SearchDone == pc \in {"post", "returned"}

UniqueNames ==
    \A i, j \in 1..Len(df) : i # j => df[i].Player # df[j].Player

\* C14: the search reaches its base case only with a complete assignment of
\* pairwise-distinct eligible players, and (roster of unique names) by the
\* time it is done it has reached it exactly once for every such assignment.
C14_EveryAssignmentOnce ==
    Searching =>
        /\ \A n \in 1..Len(base_cases) :
              \E a \in Assignments : LineupOf(a) = base_cases[n]
        /\ (SearchDone /\ UniqueNames) =>
              /\ \A a \in Assignments :
                    \E n \in 1..Len(base_cases) : base_cases[n] = LineupOf(a)
              /\ \A m, n \in 1..Len(base_cases) :
                    m # n => base_cases[m] # base_cases[n]

\* the search is done, it has passed over used candidates (the product of
\* the candidate lists is larger than the number of base cases) and it has
\* reached more than one base case
C14_Witness ==
    /\ SearchDone
    /\ UniqueNames
    /\ Len(positions_needed) = 2
    /\ Len(base_cases) >= 2
    /\ Len(position_candidates[positions_needed[1]])
         * Len(position_candidates[positions_needed[2]]) > Len(base_cases)

\* C15: while a call of backtrack_lineup runs its loop or its base case, and
\* when it returns, used_players and current_lineup are as they were when
\* the call was entered; the search as a whole leaves both empty.
C15_CallRestoresState ==
    /\ [](pc = "run" =>
            /\ used_players = Top.used0
            /\ current_lineup = Top.lineup0)
    /\ [](SearchDone => used_players = {} /\ current_lineup = <<>>)
    /\ [][(pc = "run" /\ Len(stack') < Len(stack)) =>
            /\ used_players' = Top.used0
            /\ current_lineup' = Top.lineup0]_vars

\* an inner call is back in its loop after a commit was undone, with a best
\* result recorded by then
C15_Witness ==
    /\ pc = "run"
    /\ Len(stack) >= 2
    /\ Top.k > 1
    /\ used_players # {}
    /\ best_result.score # NegInf

\* the size of the product of the first n positions' candidate lists
RECURSIVE ProductSpace(_)
ProductSpace(n) ==
    IF n = 0 THEN 1
    ELSE Len(position_candidates[positions_needed[n]]) * ProductSpace(n - 1)

\* C16: the depth of the recursion never exceeds the number of required
\* positions, the search reaches no more base cases than the product of the
\* candidate lists has elements, and every call of
\* find_best_lineup_backtracking that has started eventually returns a lineup.
C16_Terminates ==
    /\ [](stack # <<>> =>
            /\ Len(stack) <= Len(positions_needed) + 1
            /\ \A n \in 1..Len(stack) : stack[n].idx = n - 1)
    /\ [](Searching => Len(base_cases) <= ProductSpace(Len(positions_needed)))
    /\ Built ~> Returned

\* the search went to full depth more than once and has returned
C16_Witness ==
    /\ Returned
    /\ Len(positions_needed) = MaxPositions
    /\ Len(df) = MaxRosterMain
    /\ Len(base_cases) >= 2

Saved == last_op # "none"

RosterNames(file) == [i \in 1..Len(file.rows) |-> file.rows[i].Player]

\* C12: after a saving operation on an existing CSV file, the backup holds
\* the roster as it was before the operation and the CSV file the roster
\* after it (an added row at the end, the deleted names gone, an edited
\* roster of the same length).
C12_BackupHoldsRosterBefore ==
    (Saved /\ before_csv.exists) =>
        /\ backup_csv = before_csv
        /\ roster_csv.exists
        /\ last_op = "add" =>
              SubSeq(roster_csv.rows, 1, Len(before_csv.rows)) = before_csv.rows
        /\ last_op = "edit" => Len(roster_csv.rows) = Len(before_csv.rows)
        /\ last_op \in {"delete", "delete_batch"} =>
              Len(roster_csv.rows) < Len(before_csv.rows)

\* C18: the Player names of the roster file are pairwise distinct.
C18_NamesStayDistinct ==
    \A i, j \in 1..Len(roster_csv.rows) :
        i # j => roster_csv.rows[i].Player # roster_csv.rows[j].Player

\* the arguments of a call of backtrack_lineup are consistent: the partial
\* assignment has idx entries, the k-th for the k-th required position, of
\* pairwise distinct names, and used is the set of those names
ConsistentEntry(idx, used, lineup) ==
    /\ Len(lineup) = idx
    /\ \A k \in 1..Len(lineup) : lineup[k].Position = positions_needed[k]
    /\ \A j, k \in 1..Len(lineup) : j # k => lineup[j].Player # lineup[k].Player
    /\ used = {lineup[k].Player : k \in 1..Len(lineup)}

\* C21: every call of backtrack_lineup in progress was entered with
\* consistent arguments (idx entries, one per required position in order,
\* names pairwise distinct, used_players exactly those names), and so are
\* used_players and current_lineup whenever the innermost call is running.
C21_EntryInvariant ==
    pc \in {"run", "ret"} =>
        /\ \A n \in 1..Len(stack) :
              ConsistentEntry(stack[n].idx, stack[n].used0, stack[n].lineup0)
        /\ pc = "run" => ConsistentEntry(Top.idx, used_players, current_lineup)

\* a call has just been entered below a caller that has already tried and
\* undone an earlier candidate
C21_Witness ==
    /\ pc = "run"
    /\ Len(stack) >= 2
    /\ Top.k = 1
    /\ Top.idx >= 1
    /\ stack[Len(stack) - 1].k > 1
====
